---- MODULE Spec2Model ----
(***************************************************************************)
(* Model of index_documents.py: the chunking engine split_text (fixed,     *)
(* sentence and paragraph strategies) and the ingestion pipeline main      *)
(* (init_db, extract_text, split_text, generate_embedding, save_to_db).    *)
(* A text is a sequence of one-character strings.                          *)
(***************************************************************************)
EXTENDS Integers, Sequences, FiniteSets, TLC

VARIABLES mode, file, text, strategy, chunk_size, overlap,
          pc, cur_strategy, chunks, start, raw_sentences, si, current_chunk,
          result, returned, error,
          embeddings, embed_calls, zi, saved_count, tx, table, report

vars == <<mode, file, text, strategy, chunk_size, overlap,
          pc, cur_strategy, chunks, start, raw_sentences, si, current_chunk,
          result, returned, error,
          embeddings, embed_calls, zi, saved_count, tx, table, report>>

inputVars == <<mode, file, strategy>>
argVars == <<text, chunk_size, overlap>>
splitVars == <<cur_strategy, chunks, start, raw_sentences, si, current_chunk>>
outVars == <<result, returned>>
mainVars == <<embeddings, embed_calls, zi, saved_count, tx, table, report>>

(***************************************************************************)
(* Bounds of the model.                                                    *)
(***************************************************************************)
MaxLen == 5
MaxChunkSize == 4
MaxOverlap == 2
MaxParts == 3

(***************************************************************************)
(* Program constants.                                                      *)
(***************************************************************************)
DefaultChunkSize == 500
DefaultOverlap == 50

Alphabet == {"a", ".", " ", "\n"}
Whitespace == {" ", "\t", "\n"}
SentenceEnd == {".", "!", "?"}
KnownStrategies == {"fixed", "sentence", "paragraph"}
Strategies == KnownStrategies \cup {"semantic"}
MainStrategies == KnownStrategies
Texts == UNION {[1..n -> Alphabet] : n \in 0..MaxLen}

(***************************************************************************)
(* Python string primitives.                                               *)
(***************************************************************************)
Min(S) == CHOOSE x \in S : \A y \in S : x <= y
Max(S) == CHOOSE x \in S : \A y \in S : x >= y

IsBlank(s) == \A i \in 1..Len(s) : s[i] \in Whitespace

\* str.strip(): drop leading and trailing whitespace.
Strip(s) ==
  IF IsBlank(s) THEN <<>>
  ELSE LET nonws == {i \in 1..Len(s) : s[i] \notin Whitespace}
       IN SubSeq(s, Min(nonws), Max(nonws))

\* text[lo:hi] with Python's treatment of negative and out-of-range indices.
SliceIndex(n, i) == IF i < 0 THEN (IF i + n < 0 THEN 0 ELSE i + n)
                    ELSE (IF i > n THEN n ELSE i)

Slice(s, lo, hi) ==
  LET a == SliceIndex(Len(s), lo)
      b == SliceIndex(Len(s), hi)
  IN IF a < b THEN SubSeq(s, a + 1, b) ELSE <<>>

\* End (inclusive) of the maximal whitespace run that starts at position i.
RunEnd(s, i) ==
  Max({j \in i..Len(s) : \A k \in i..j : s[k] \in Whitespace})

\* re.split(r'(?<=[.!?])\s+', text), scanning from position p; the current
\* piece starts at position ps.
RECURSIVE SentenceSplitFrom(_, _, _)
SentenceSplitFrom(s, p, ps) ==
  LET cands == {i \in p..Len(s) : i > 1 /\ s[i-1] \in SentenceEnd
                                        /\ s[i] \in Whitespace}
  IN IF cands = {} THEN <<SubSeq(s, ps, Len(s))>>
     ELSE LET i == Min(cands)
              e == RunEnd(s, i)
          IN <<SubSeq(s, ps, i - 1)>> \o SentenceSplitFrom(s, e + 1, e + 1)

SplitSentences(s) == SentenceSplitFrom(s, 1, 1)

\* Positions j > i that can end a match of \n\s*\n starting at i.
ParaMatchEnds(s, i) ==
  {j \in (i+1)..Len(s) : s[j] = "\n" /\ \A k \in (i+1)..(j-1) : s[k] \in Whitespace}

\* re.split(r'\n\s*\n', text): leftmost match, greedy \s*.
RECURSIVE ParagraphSplitFrom(_, _)
ParagraphSplitFrom(s, ps) ==
  LET cands == {i \in ps..Len(s) : s[i] = "\n" /\ ParaMatchEnds(s, i) # {}}
  IN IF cands = {} THEN <<SubSeq(s, ps, Len(s))>>
     ELSE LET i == Min(cands)
              j == Max(ParaMatchEnds(s, i))
          IN <<SubSeq(s, ps, i - 1)>> \o ParagraphSplitFrom(s, j + 1)

SplitParagraphs(s) == ParagraphSplitFrom(s, 1)

\* [p.strip() for p in parts if p.strip()]
StripAll(parts) == [i \in 1..Len(parts) |-> Strip(parts[i])]
NonEmpty(c) == c # <<>>
ParagraphChunks(s) == SelectSeq(StripAll(SplitParagraphs(s)), NonEmpty)

\* [c for c in chunks if c]
RemoveEmpty(cs) == SelectSeq(cs, NonEmpty)

(***************************************************************************)
(* extract_text: the text of a PDF or DOCX file, cleaned up.               *)
(***************************************************************************)
PartTexts == {<<"a">>, <<"b", ".">>, <<"a", " ", " ", "\n">>, <<" ">>}
Extensions == {".pdf", ".docx", ".txt"}
NoReport == [kind |-> "none", saved |-> 0, total |-> 0]
NoFile == [name |-> "", ext |-> "", parts |-> <<>>]
Files == {[name |-> "doc", ext |-> e, parts |-> ps] :
            e \in Extensions,
            ps \in UNION {[1..n -> PartTexts] : n \in 0..MaxParts}}

\* pdf: if page_text: text += page_text + "\n\n"
\* docx: if para.text.strip(): text += para.text + "\n\n"
KeepPart(ext, part) == IF ext = ".pdf" THEN part # <<>> ELSE Strip(part) # <<>>

RECURSIVE JoinParts(_, _)
JoinParts(ext, parts) ==
  IF parts = <<>> THEN <<>>
  ELSE (IF KeepPart(ext, Head(parts)) THEN Head(parts) \o <<"\n", "\n">> ELSE <<>>)
       \o JoinParts(ext, Tail(parts))

\* re.sub(r'[ \t]+', ' ', text), applied from position i on.
RECURSIVE CollapseSpacesFrom(_, _)
CollapseSpacesFrom(s, i) ==
  IF i > Len(s) THEN <<>>
  ELSE IF s[i] \in {" ", "\t"}
       THEN (IF i > 1 /\ s[i-1] \in {" ", "\t"} THEN <<>> ELSE <<" ">>)
            \o CollapseSpacesFrom(s, i + 1)
       ELSE <<s[i]>> \o CollapseSpacesFrom(s, i + 1)

\* re.sub(r'\n{3,}', '\n\n', text), applied from position i on.
RECURSIVE CollapseNewlinesFrom(_, _)
CollapseNewlinesFrom(s, i) ==
  IF i > Len(s) THEN <<>>
  ELSE IF s[i] = "\n" /\ i > 2 /\ s[i-1] = "\n" /\ s[i-2] = "\n"
       THEN CollapseNewlinesFrom(s, i + 1)
       ELSE <<s[i]>> \o CollapseNewlinesFrom(s, i + 1)

ExtractedText(f) ==
  Strip(CollapseNewlinesFrom(CollapseSpacesFrom(JoinParts(f.ext, f.parts), 1), 1))

(***************************************************************************)
(* split_text, one action per step of the function.                        *)
(***************************************************************************)
InitCall ==
  /\ mode = "call"
  /\ file = NoFile
  /\ text \in Texts
  /\ strategy \in Strategies
  /\ chunk_size \in 1..MaxChunkSize
  /\ overlap \in 0..MaxOverlap
  /\ pc = "split_entry"
  /\ cur_strategy = strategy
  /\ chunks = <<>>
  /\ start = 0
  /\ raw_sentences = <<>>
  /\ si = 0
  /\ current_chunk = <<>>
  /\ result = <<>>
  /\ returned = FALSE
  /\ error = "none"
  /\ embeddings = <<>>
  /\ embed_calls = <<>>
  /\ zi = 0
  /\ saved_count = 0
  /\ tx = <<>>
  /\ table = <<>>
  /\ report = NoReport

\* strategy == 'fixed': start = 0
EnterFixed ==
  /\ pc = "split_entry"
  /\ cur_strategy = "fixed"
  /\ chunks' = <<>>
  /\ start' = 0
  /\ pc' = "fixed_loop"
  /\ UNCHANGED <<inputVars, argVars, cur_strategy, raw_sentences, si,
                 current_chunk, outVars, error, mainVars>>

\* FixedIter with the scan advanced by overlap instead of chunk_size - overlap.
FixedIter_AdvanceByOverlap ==
  /\ pc = "fixed_loop"
  /\ start < Len(text)
  /\ Len(chunks) <= Len(text)
  /\ chunks' = Append(chunks, Slice(text, start, start + chunk_size))
  /\ start' = start + overlap
  /\ UNCHANGED <<inputVars, argVars, pc, cur_strategy, raw_sentences, si,
                 current_chunk, outVars, error, mainVars>>

\* FixedIter with the window cut at the next scan position (no overlap kept).
FixedIter_WindowOfStep ==
  /\ pc = "fixed_loop"
  /\ start < Len(text)
  /\ Len(chunks) <= Len(text)
  /\ chunks' = Append(chunks, Slice(text, start, start + chunk_size - overlap))
  /\ start' = start + (chunk_size - overlap)
  /\ UNCHANGED <<inputVars, argVars, pc, cur_strategy, raw_sentences, si,
                 current_chunk, outVars, error, mainVars>>

\* One iteration of: while start < len(text).  The guard on Len(chunks)
\* caps a scan whose position does not advance; an advancing scan emits at
\* most Len(text) windows and never meets it.
FixedIter ==
  /\ pc = "fixed_loop"
  /\ start < Len(text)
  /\ Len(chunks) <= Len(text)
  /\ chunks' = Append(chunks, Slice(text, start, start + chunk_size))
  /\ start' = start + (chunk_size - overlap)
  /\ UNCHANGED <<inputVars, argVars, pc, cur_strategy, raw_sentences, si,
                 current_chunk, outVars, error, mainVars>>

FixedExit ==
  /\ pc = "fixed_loop"
  /\ ~(start < Len(text))
  /\ pc' = "filter"
  /\ UNCHANGED <<inputVars, argVars, splitVars, outVars, error, mainVars>>

\* strategy == 'sentence': split at sentence boundaries, empty buffer.
EnterSentence ==
  /\ pc = "split_entry"
  /\ cur_strategy = "sentence"
  /\ chunks' = <<>>
  /\ raw_sentences' = SplitSentences(text)
  /\ current_chunk' = <<>>
  /\ si' = 1
  /\ pc' = "sentence_loop"
  /\ UNCHANGED <<inputVars, argVars, cur_strategy, start, outVars, error,
                 mainVars>>

\* Loop body, buffer still under chunk_size: current_chunk += sentence + " "
SentenceAccumulate ==
  /\ pc = "sentence_loop"
  /\ si <= Len(raw_sentences)
  /\ Len(current_chunk) + Len(raw_sentences[si]) < chunk_size
  /\ current_chunk' = current_chunk \o raw_sentences[si] \o <<" ">>
  /\ si' = si + 1
  /\ UNCHANGED <<inputVars, argVars, pc, cur_strategy, chunks, start,
                 raw_sentences, outVars, error, mainVars>>

\* Loop body, otherwise: close the buffer and restart it with the sentence.
SentenceClose ==
  /\ pc = "sentence_loop"
  /\ si <= Len(raw_sentences)
  /\ ~(Len(current_chunk) + Len(raw_sentences[si]) < chunk_size)
  /\ chunks' = Append(chunks, Strip(current_chunk))
  /\ current_chunk' = raw_sentences[si] \o <<" ">>
  /\ si' = si + 1
  /\ UNCHANGED <<inputVars, argVars, pc, cur_strategy, start, raw_sentences,
                 outVars, error, mainVars>>

\* SentenceFlush without the final flush of the buffer.
SentenceFlush_NoFlush ==
  /\ pc = "sentence_loop"
  /\ si > Len(raw_sentences)
  /\ chunks' = chunks
  /\ pc' = "filter"
  /\ UNCHANGED <<inputVars, argVars, cur_strategy, start, raw_sentences, si,
                 current_chunk, outVars, error, mainVars>>

\* After the loop: if current_chunk: chunks.append(current_chunk.strip())
SentenceFlush ==
  /\ pc = "sentence_loop"
  /\ si > Len(raw_sentences)
  /\ chunks' = IF current_chunk # <<>>
               THEN Append(chunks, Strip(current_chunk)) ELSE chunks
  /\ pc' = "filter"
  /\ UNCHANGED <<inputVars, argVars, cur_strategy, start, raw_sentences, si,
                 current_chunk, outVars, error, mainVars>>

\* strategy == 'paragraph': trimmed non-empty paragraphs; when there are
\* none, return split_text(text, 'fixed', chunk_size, overlap).
EnterParagraph ==
  /\ pc = "split_entry"
  /\ cur_strategy = "paragraph"
  /\ chunks' = ParagraphChunks(text)
  /\ IF ParagraphChunks(text) = <<>>
     THEN /\ cur_strategy' = "fixed"
          /\ pc' = "split_entry"
     ELSE /\ cur_strategy' = cur_strategy
          /\ pc' = "filter"
  /\ UNCHANGED <<inputVars, argVars, start, raw_sentences, si, current_chunk,
                 outVars, error, mainVars>>

\* EnterUnknown falling through to the return instead of raising.
EnterUnknown_FallThrough ==
  /\ pc = "split_entry"
  /\ cur_strategy \notin KnownStrategies
  /\ error' = error
  /\ pc' = "filter"
  /\ UNCHANGED <<inputVars, argVars, splitVars, outVars, mainVars>>

\* else: raise ValueError
EnterUnknown ==
  /\ pc = "split_entry"
  /\ cur_strategy \notin KnownStrategies
  /\ error' = "ValueError"
  /\ pc' = "raised"
  /\ UNCHANGED <<inputVars, argVars, splitVars, outVars, mainVars>>

\* return [c for c in chunks if c]
FilterReturn ==
  /\ pc = "filter"
  /\ result' = RemoveEmpty(chunks)
  /\ returned' = TRUE
  /\ pc' = IF mode = "main" THEN "embed_loop" ELSE "returned"
  /\ UNCHANGED <<inputVars, argVars, splitVars, error, mainVars>>

SplitText ==
  \/ EnterFixed
  \/ FixedIter
  \/ FixedExit
  \/ EnterSentence
  \/ SentenceAccumulate
  \/ SentenceClose
  \/ SentenceFlush
  \/ EnterParagraph
  \/ EnterUnknown
  \/ FilterReturn

(***************************************************************************)
(* main: init_db, extract_text, split_text, generate_embedding per chunk,  *)
(* save_to_db.                                                             *)
(***************************************************************************)
\* The vector the embedding service computes from a chunk.
Embedding(chunk) == <<"embedding-001", chunk>>

Row(chunk, vec) == [chunk_text |-> chunk, embedding |-> vec,
                    filename |-> file.name, split_strategy |-> strategy]

InitMain ==
  /\ mode = "main"
  /\ file \in Files
  /\ strategy \in MainStrategies
  /\ text = <<>>
  /\ chunk_size = DefaultChunkSize
  /\ overlap = DefaultOverlap
  /\ pc = "init_db"
  /\ cur_strategy = strategy
  /\ chunks = <<>>
  /\ start = 0
  /\ raw_sentences = <<>>
  /\ si = 0
  /\ current_chunk = <<>>
  /\ result = <<>>
  /\ returned = FALSE
  /\ error = "none"
  /\ embeddings = <<>>
  /\ embed_calls = <<>>
  /\ zi = 0
  /\ saved_count = 0
  /\ tx = <<>>
  /\ table = <<>>
  /\ report = NoReport

\* init_db: a failed connection raises ConnectionError out of main; an
\* error while creating the schema is printed and the run goes on.
InitDb ==
  /\ pc = "init_db"
  /\ \/ /\ error' = "ConnectionError"
        /\ pc' = "crashed"
     \/ /\ error' = error
        /\ pc' = "extract"
  /\ UNCHANGED <<inputVars, argVars, splitVars, outVars, mainVars>>

\* raw_text = extract_text(file_path); on any exception main prints it and
\* returns.
ExtractText ==
  /\ pc = "extract"
  /\ \/ /\ file.ext \in {".pdf", ".docx"}
        /\ text' = ExtractedText(file)
        /\ error' = error
        /\ pc' = "split_entry"
     \/ /\ text' = text
        /\ error' = "RuntimeError"
        /\ pc' = "halted"
  /\ UNCHANGED <<inputVars, chunk_size, overlap, splitVars, outVars, mainVars>>

\* generate_embedding: the vector, or [] when the call fails.
generate_embedding(chunk, ok) == IF ok THEN Embedding(chunk) ELSE <<>>

\* EmbedIter that appends only the vectors of successful calls.
EmbedIter_DropFailed ==
  /\ pc = "embed_loop"
  /\ Len(embed_calls) < Len(result)
  /\ \E ok \in BOOLEAN :
       LET chunk == result[Len(embed_calls) + 1]
           vec == generate_embedding(chunk, ok)
       IN /\ embed_calls' = Append(embed_calls, chunk)
          /\ embeddings' = IF vec # <<>> THEN Append(embeddings, vec)
                           ELSE embeddings
  /\ UNCHANGED <<inputVars, argVars, pc, splitVars, outVars, error,
                 zi, saved_count, tx, table, report>>

\* for chunk in chunks: embeddings.append(generate_embedding(chunk))
EmbedIter ==
  /\ pc = "embed_loop"
  /\ Len(embed_calls) < Len(result)
  /\ \E ok \in BOOLEAN :
       LET chunk == result[Len(embed_calls) + 1]
           vec == generate_embedding(chunk, ok)
       IN /\ embed_calls' = Append(embed_calls, chunk)
          /\ embeddings' = Append(embeddings, vec)
  /\ UNCHANGED <<inputVars, argVars, pc, splitVars, outVars, error,
                 zi, saved_count, tx, table, report>>

EmbedExit ==
  /\ pc = "embed_loop"
  /\ ~(Len(embed_calls) < Len(result))
  /\ pc' = "save_connect"
  /\ UNCHANGED <<inputVars, argVars, splitVars, outVars, error, mainVars>>

\* save_to_db: conn = get_db_connection(); saved_count = 0
SaveConnect ==
  /\ pc = "save_connect"
  /\ \/ /\ error' = "ConnectionError"
        /\ pc' = "crashed"
        /\ UNCHANGED <<zi, saved_count, tx>>
     \/ /\ error' = error
        /\ pc' = "save_loop"
        /\ zi' = 1
        /\ saved_count' = 0
        /\ tx' = <<>>
  /\ UNCHANGED <<inputVars, argVars, splitVars, outVars, embeddings,
                 embed_calls, table, report>>

ZipLen == IF Len(result) < Len(embeddings) THEN Len(result) ELSE Len(embeddings)

\* except: print("Database Insert Error"); conn.rollback()
Rollback ==
  /\ tx' = <<>>
  /\ report' = [kind |-> "insert_error", saved |-> 0, total |-> 0]
  /\ pc' = "complete"
  /\ UNCHANGED <<zi, saved_count, table>>

\* SaveIter without the test for an empty embedding.
SaveIter_NoVectorTest ==
  /\ pc = "save_loop"
  /\ zi <= ZipLen
  /\ \/ /\ tx' = Append(tx, Row(result[zi], embeddings[zi]))
        /\ saved_count' = saved_count + 1
        /\ zi' = zi + 1
        /\ UNCHANGED <<pc, table, report>>
     \/ Rollback
  /\ UNCHANGED <<inputVars, argVars, splitVars, outVars, error, embeddings,
                 embed_calls>>

\* for chunk, vec in zip(chunks, embeddings): if vec: execute; saved_count += 1
SaveIter ==
  /\ pc = "save_loop"
  /\ zi <= ZipLen
  /\ \/ /\ embeddings[zi] # <<>>
        /\ tx' = Append(tx, Row(result[zi], embeddings[zi]))
        /\ saved_count' = saved_count + 1
        /\ zi' = zi + 1
        /\ UNCHANGED <<pc, table, report>>
     \/ /\ embeddings[zi] # <<>>
        /\ Rollback
     \/ /\ embeddings[zi] = <<>>
        /\ zi' = zi + 1
        /\ UNCHANGED <<pc, saved_count, tx, table, report>>
  /\ UNCHANGED <<inputVars, argVars, splitVars, outVars, error, embeddings,
                 embed_calls>>

\* conn.commit(); print(saved_count/len(chunks))
SaveCommit ==
  /\ pc = "save_loop"
  /\ zi > ZipLen
  /\ \/ /\ table' = table \o tx
        /\ tx' = <<>>
        /\ report' = [kind |-> "saved", saved |-> saved_count,
                                       total |-> Len(result)]
        /\ pc' = "complete"
        /\ UNCHANGED <<zi, saved_count>>
     \/ Rollback
  /\ UNCHANGED <<inputVars, argVars, splitVars, outVars, error, embeddings,
                 embed_calls>>

Main ==
  \/ InitDb
  \/ ExtractText
  \/ EmbedIter
  \/ EmbedExit
  \/ SaveConnect
  \/ SaveIter
  \/ SaveCommit

Init == InitCall \/ InitMain
Next == SplitText \/ Main
Spec == Init /\ [][Next]_vars

(***************************************************************************)
(* Vocabulary of the properties.                                           *)
(***************************************************************************)
ValidParams == chunk_size > overlap /\ overlap >= 0
Step == chunk_size - overlap

\* Window i (from 1) of a scan of s with window size cs and the given step.
Window(s, cs, step, i) == Slice(s, (i - 1) * step, (i - 1) * step + cs)

\* Number of scan positions 0, step, 2*step, ... below n.
WindowCount(n, step) == (n + step - 1) \div step

FixedWindows(s, cs, step) ==
  [i \in 1..WindowCount(Len(s), step) |-> Window(s, cs, step, i)]

\* First `step` characters of every chunk but the last, then the last chunk.
RECURSIVE Reassemble(_, _)
Reassemble(cs, step) ==
  IF cs = <<>> THEN <<>>
  ELSE IF Len(cs) = 1 THEN cs[1]
  ELSE Slice(cs[1], 0, step) \o Reassemble(Tail(cs), step)

\* The text has a blank-line separator (a match of \n\s*\n).
HasBlankLine(s) == \E i \in 1..Len(s) : s[i] = "\n" /\ ParaMatchEnds(s, i) # {}

\* ' '.join(run)
RECURSIVE JoinSpace(_)
JoinSpace(run) ==
  IF run = <<>> THEN <<>>
  ELSE IF Len(run) = 1 THEN run[1]
  ELSE run[1] \o <<" ">> \o JoinSpace(Tail(run))

\* The consecutive runs of segs that end at the positions in ends.
RECURSIVE RunsFrom(_, _, _)
RunsFrom(segs, from, ends) ==
  IF from > Len(segs) THEN <<>>
  ELSE LET e == Min({x \in ends : x >= from})
       IN <<SubSeq(segs, from, e)>> \o RunsFrom(segs, e + 1, ends)

\* Every way of cutting segs into consecutive non-empty runs.
Partitions(segs) ==
  {RunsFrom(segs, 1, cuts \cup {Len(segs)}) : cuts \in SUBSET (1..(Len(segs) - 1))}

\* Rows for the first k chunks whose embedding is present, in chunk order.
RECURSIVE PresentRows(_)
PresentRows(k) ==
  IF k = 0 THEN <<>>
  ELSE IF embeddings[k] # <<>>
       THEN Append(PresentRows(k - 1), Row(result[k], embeddings[k]))
       ELSE PresentRows(k - 1)

\* Rows pairing each of the first k chunks that has a vector with the vector
\* computed from that very chunk.
RECURSIVE OwnVectorRows(_)
OwnVectorRows(k) ==
  IF k = 0 THEN <<>>
  ELSE IF embeddings[k] # <<>>
       THEN Append(OwnVectorRows(k - 1), Row(result[k], Embedding(result[k])))
       ELSE OwnVectorRows(k - 1)

(***************************************************************************)
(* Properties.                                                             *)
(***************************************************************************)

\* C1: with chunk_size > overlap >= 0, no chunk returned by split_text is
\* empty or whitespace-only, whatever the strategy.
C1_NoBlankChunk ==
  (returned /\ ValidParams) =>
    \A i \in 1..Len(result) : ~IsBlank(result[i])

FixedChunkLengths(cs) ==
  \A i \in 1..Len(cs) :
    /\ Len(cs[i]) <= chunk_size
    /\ ((i - 1) * Step + chunk_size <= Len(text)) => Len(cs[i]) = chunk_size

\* C2: with chunk_size > overlap >= 0 the fixed scan terminates: every
\* iteration strictly advances the scan start, which stays within one step
\* of the text length, and the loop can always iterate or exit; every chunk
\* has length <= chunk_size, and exactly chunk_size unless its window runs
\* past the end of the text.
C2_FixedTerminatesBounded ==
  /\ [][(ValidParams /\ pc = "fixed_loop" /\ pc' = "fixed_loop")
          => (start < Len(text) /\ start' > start)]_vars
  /\ []((ValidParams /\ pc = "fixed_loop")
          => /\ start = Len(chunks) * Step
             /\ start < Len(text) + Step
             /\ ENABLED (FixedIter \/ FixedExit))
  /\ []((ValidParams /\ cur_strategy = "fixed")
          => (FixedChunkLengths(chunks) /\ FixedChunkLengths(result)))

C2_Witness ==
  /\ returned /\ strategy = "fixed" /\ ValidParams /\ overlap > 0
  /\ Len(result) >= 3
  /\ Len(result[Len(result)]) < chunk_size

\* C3: with chunk_size > overlap >= 0 the fixed strategy returns the windows
\* text[i*step : i*step + chunk_size], and the first `step` characters of
\* every chunk but the last followed by the last chunk give back the text.
C3_FixedCovers ==
  (returned /\ cur_strategy = "fixed" /\ ValidParams) =>
    /\ \A i \in 1..Len(result) : result[i] = Window(text, chunk_size, Step, i)
    /\ Reassemble(result, Step) = text

C3_Witness ==
  /\ returned /\ strategy = "fixed" /\ ValidParams
  /\ chunk_size = 3 /\ overlap = 1 /\ Len(text) = 5
  /\ Len(result) = 3

SizeOk(run, chunk) ==
  \/ Len(chunk) < chunk_size
  \/ (Len(run) = 1 /\ Len(run[1]) >= chunk_size)

\* C4 as stated: the sentence strategy returns, in order, the single-space
\* joins of consecutive runs of the sentence segments, every segment in
\* exactly one chunk, each chunk under chunk_size or one oversized sentence.
C4_SentenceJoins ==
  (returned /\ strategy = "sentence") =>
    \E runs \in Partitions(SplitSentences(text)) :
      /\ result = [k \in 1..Len(runs) |-> JoinSpace(runs[k])]
      /\ \A k \in 1..Len(runs) : SizeOk(runs[k], JoinSpace(runs[k]))

\* C4 amended: the sentence strategy returns, in order, the trimmed
\* single-space joins of consecutive runs of the sentence segments, leaving
\* out the joins that trim to nothing; every segment is in exactly one run,
\* and each trimmed join is under chunk_size or is one oversized sentence.
C4_SentenceTrimmedJoins ==
  (returned /\ strategy = "sentence") =>
    \E runs \in Partitions(SplitSentences(text)) :
      /\ result = RemoveEmpty([k \in 1..Len(runs) |-> Strip(JoinSpace(runs[k]))])
      /\ \A k \in 1..Len(runs) : SizeOk(runs[k], Strip(JoinSpace(runs[k])))

C4_Witness ==
  /\ returned /\ strategy = "sentence"
  /\ Len(raw_sentences) = 3
  /\ Len(result) = 2
  /\ IsBlank(<<text[1]>>)

\* C5: on a text without blank-line separator the paragraph strategy returns
\* what the fixed strategy returns for the same text, chunk_size and overlap.
C5_ParagraphFallsBackToFixed ==
  (returned /\ strategy = "paragraph" /\ ValidParams /\ ~HasBlankLine(text)) =>
    result = FixedWindows(text, chunk_size, Step)

\* C6: on a text with a blank-line separator the paragraph strategy returns
\* exactly the trimmed non-empty paragraphs in order (none when every
\* paragraph is empty).
C6_ParagraphCount ==
  (returned /\ strategy = "paragraph" /\ ValidParams /\ HasBlankLine(text)) =>
    result = ParagraphChunks(text)

\* C7: the fixed scan never runs an iteration that leaves the scan position
\* where it was or moves it back (overlap >= chunk_size is a failure instead).
C7_ScanAlwaysAdvances ==
  [][(pc = "fixed_loop" /\ pc' = "fixed_loop") => start' > start]_vars

\* C8: an unrecognised strategy name makes split_text raise ValueError;
\* nothing is returned and no chunk is produced.
C8_UnknownStrategyFails ==
  (strategy \notin KnownStrategies) =>
    /\ pc \in {"split_entry", "raised"}
    /\ pc = "raised" => error = "ValueError"
    /\ pc = "split_entry" => ENABLED EnterUnknown
    /\ ~returned /\ result = <<>> /\ chunks = <<>>

C8_Witness ==
  /\ pc = "raised" /\ strategy \notin KnownStrategies /\ Len(text) > 1

\* C9: an embedding failure never halts the run: every chunk is passed to
\* the embedding client, save is reached, and a committed save holds exactly
\* one row per chunk whose vector is present and reports saved/total.
C9_EmbeddingFailureSkipped ==
  (mode = "main") =>
    /\ pc = "embed_loop" => ENABLED (EmbedIter \/ EmbedExit)
    /\ pc = "halted" => (~returned /\ error = "RuntimeError")
    /\ pc = "crashed" => error = "ConnectionError"
    /\ pc \in {"save_connect", "save_loop", "complete"} =>
         (embed_calls = result /\ Len(embeddings) = Len(result))
    /\ (pc = "complete" /\ report.kind = "saved") =>
         /\ table = PresentRows(Len(result))
         /\ report.saved = Len(table)
         /\ report.total = Len(result)

C9_Witness ==
  /\ pc = "complete" /\ report.kind = "saved"
  /\ Len(result) = 3
  /\ embeddings[1] # <<>> /\ embeddings[2] = <<>> /\ embeddings[3] # <<>>
  /\ report.saved = 2 /\ report.total = 3

\* C10: chunks are embedded in the order split_text returned them, the i-th
\* embedding belongs to the i-th chunk, and the rows are inserted in chunk
\* order, each holding a chunk with the vector computed from that chunk.
C10_OrderAndPairing ==
  (mode = "main") =>
    /\ Len(embed_calls) <= Len(result)
    /\ embed_calls = SubSeq(result, 1, Len(embed_calls))
    /\ Len(embeddings) = Len(embed_calls)
    /\ \A i \in 1..Len(embeddings) :
         embeddings[i] \in {<<>>, Embedding(result[i])}
    /\ pc = "save_loop" =>
         (Len(embeddings) = Len(result) /\ tx = OwnVectorRows(zi - 1))
    /\ (pc = "complete" /\ report.kind = "saved") =>
         table = OwnVectorRows(Len(result))

C10_Witness ==
  /\ pc = "complete" /\ report.kind = "saved"
  /\ Len(result) = 3 /\ result[2] # result[3]
  /\ embeddings[1] = <<>>
  /\ Len(table) = 2
  /\ table[1].chunk_text = result[2] /\ table[2].chunk_text = result[3]
====
